---- MODULE Spec2Model ----
(***************************************************************************)
(* Cyber-Mercenary agent: the signature manager (services/signer.py) and   *)
(* the SQLite persistence service (services/database.py).                  *)
(***************************************************************************)
EXTENDS Integers, FiniteSets, Sequences, TLC

VARIABLES
    private_key,      \* config.blockchain.private_key
    agent_address,    \* config.blockchain.agent_address
    _account,         \* SignatureManager._account (the key of the cached account)
    scans,            \* rows of table scans
    scans_seq,        \* sqlite_sequence entry of scans (AUTOINCREMENT)
    bounties,         \* rows of table bounties
    bounties_seq,     \* sqlite_sequence entry of bounties (AUTOINCREMENT)
    stats,            \* rows of table stats
    clock,            \* CURRENT_TIMESTAMP
    saved,            \* history: scan_id -> arguments of the latest save_scan
    _cache,           \* ContractScanner._cache: address -> bytecode
    chain_code,       \* the chain: address -> bytecode now deployed there
    rpc_calls,        \* eth_getCode calls issued by the scanner
    fetched,          \* history: address -> bytecode of the first successful fetch
    escrow,           \* config.contracts.escrow
    _escrow_contract, \* ContractScanner._escrow_contract
    txs_signed,       \* transactions signed by _sign_and_send
    txs_sent,         \* transactions sent by _sign_and_send
    connected,        \* what w3.is_connected() returns now
    job_pc,           \* per job: where its run() coroutine is
    _running,         \* per job: the loop flag
    _task,            \* per job: self._task
    active,           \* per job: cycles executing now
    cycles,           \* per job: cycles begun
    sleeps,           \* per job: sleeps completed
    stop_called,      \* history, per job: stop() was called after run() was scheduled
    tasks,            \* background tasks not yet run: scan_id -> contract address
    finished,         \* history: scan ids whose perform_scan has finished
    agent_running,    \* CyberMercenary.running
    agent_stopped,    \* history: CyberMercenary.stop() has completed
    http_requests_in_progress,      \* gauge: (method, endpoint) -> value
    http_requests_total,            \* counter: (method, endpoint, status_code) -> value
    http_request_duration_seconds,  \* histogram: (method, endpoint) -> count and sum
    _start_time,      \* MetricsCollector._start_time: key -> time
    handlers,         \* history, per request: its labels, start, end, observations
    request_id,       \* _request_id_context.request_id, "" when unset
    blocks,           \* per request_context block: position and old_request_id
    open,             \* history: the blocks entered and not exited, in order of entry
    log_file,         \* the current log file
    backups,          \* k -> the backup file <name>.k.log
    backup_count,     \* LogFile.backup_count
    generation,       \* history: rotate calls so far
    last              \* the latest call: operation, arguments, outcome

vars == <<private_key, agent_address, _account, scans, scans_seq, bounties,
          bounties_seq, stats, clock, saved, _cache, chain_code, rpc_calls,
          fetched, escrow, _escrow_contract, txs_signed, txs_sent, connected,
          job_pc, _running, _task, active, cycles, sleeps, stop_called, tasks,
          finished, agent_running, agent_stopped, http_requests_in_progress,
          http_requests_total, http_request_duration_seconds, _start_time,
          handlers, request_id, blocks, open, log_file, backups, backup_count,
          generation, last>>

signerVars == <<private_key, agent_address, _account>>
dbVars == <<scans, scans_seq, bounties, bounties_seq, stats, clock, saved>>
cacheVars == <<_cache, chain_code, rpc_calls, fetched>>
escrowVars == <<escrow, _escrow_contract, txs_signed, txs_sent, connected>>
jobVars == <<job_pc, _running, _task, active, cycles, sleeps, stop_called>>
flowVars == <<tasks, finished>>
metricsVars == <<http_requests_in_progress, http_requests_total,
                 http_request_duration_seconds, _start_time, handlers>>
logVars == <<request_id, blocks, open, log_file, backups, backup_count, generation>>
tailVars == <<agent_running, agent_stopped, metricsVars, logVars>>
restVars == <<cacheVars, escrowVars, jobVars, flowVars, tailVars>>
coreVars == <<signerVars, dbVars, cacheVars, escrowVars, jobVars, flowVars,
              agent_running, agent_stopped>>

(***************************************************************************)
(* Bounds                                                                  *)
(***************************************************************************)
MaxClock == 2        \* CURRENT_TIMESTAMP takes the values 1..MaxClock
MaxRows == 3         \* rows ever inserted into scans and bounties together
MaxCounter == 2      \* cap of the counter stats.vulnerabilities_found

None == "None"       \* Python None / SQL NULL in a text column
Jobs == {"scanner", "bounty"}
NULL == 0            \* SQL NULL in a timestamp column (timestamps are >= 1)

Return(v) == [raised |-> "", value |-> v]
Raise(e) == [raised |-> e, value |-> None]

(***************************************************************************)
(* services/signer.py                                                      *)
(***************************************************************************)
Keys == {"k1", "k2"}
Messages == {"m1", "m2"}

\* Account.from_key(k).address: the checksummed (mixed case) address of k
Address(k) == IF k = "k1" THEN "0xAb1" ELSE "0xCd2"

\* str.lower() on the addresses of the model
Lower(s) ==
    CASE s = "0xAb1" -> "0xab1"
      [] s = "0xCd2" -> "0xcd2"
      [] s = "0xEf3" -> "0xef3"
      [] OTHER -> s

\* the names bound at module level of signer.py; encode_defunct is imported
\* inside the body of sign_message only and is local to that function
ModuleGlobals ==
    {"logging", "Optional", "dataclass", "Account", "encode_structured_data",
     "keccak", "Settings", "logger", "SignedMessage", "SignatureManager"}

\* the literal passed to encode_structured_data by sign_message
StructuredDataArg ==
    [primaryType |-> "Message", types |-> [EIP712Domain |-> <<>>]]

\* encode_structured_data validates its argument: types with an EIP712Domain
\* entry, a primaryType declared in types, a domain and a message
encode_structured_data(d) ==
    IF /\ "types" \in DOMAIN d
       /\ "EIP712Domain" \in DOMAIN d.types
       /\ "primaryType" \in DOMAIN d
       /\ d.primaryType \in DOMAIN d.types
       /\ "domain" \in DOMAIN d
       /\ "message" \in DOMAIN d
    THEN Return("structured")
    ELSE Raise("ValidationError")

\* a signature is the pair (message signed, key that signed); BadSig is a
\* string that is no signature at all ("0x" + "00" * 65)
BadSig == [msg |-> "-", key |-> "-"]
Sign(m, k) == [msg |-> m, key |-> k]
Signatures == {Sign(m, k) : m \in Messages, k \in Keys} \cup {BadSig}

\* Account.recover_message: the signer's address for the message that was
\* signed, an unrelated address for any other message, an error for a string
\* that is no signature
recover_message(message, signature) ==
    IF signature = BadSig THEN Raise("BadSignature")
    ELSE IF signature.msg = message THEN Return(Address(signature.key))
    ELSE Return("0xEf3")

\* SignatureManager._get_account on (self._account, private_key, agent_address)
_get_account_mut(account, key, addr) ==
    IF account = None
    THEN [raised |-> IF key \in {None, ""} THEN "ValueError" ELSE "",
          account |-> key,
          agent_address |-> IF addr \in {None, ""} THEN Address(key) ELSE addr]
    ELSE [raised |-> "", account |-> account, agent_address |-> addr]

_get_account(account, key, addr) ==
    IF account = None
    THEN IF key \in {None, ""}
         THEN [raised |-> "ValueError", account |-> account, agent_address |-> addr]
         ELSE [raised |-> "", account |-> key,
               agent_address |-> IF addr \in {None, ""} THEN Address(key) ELSE addr]
    ELSE [raised |-> "", account |-> account, agent_address |-> addr]

\* SignatureManager.sign_message: the outcome and the signer's new state
sign_message(message, account, key, addr) ==
    LET acc == _get_account(account, key, addr)
        enc == encode_structured_data(StructuredDataArg)
    IN  IF acc.raised # ""
        THEN [raised |-> acc.raised, value |-> None,
              account |-> acc.account, agent_address |-> acc.agent_address]
        ELSE IF enc.raised # ""
        THEN [raised |-> enc.raised, value |-> None,
              account |-> acc.account, agent_address |-> acc.agent_address]
        ELSE [raised |-> "",
              value |-> [message |-> message,
                         signature |-> Sign(message, acc.account),
                         hash |-> <<"keccak", message>>,
                         signer_address |-> Address(acc.account)],
              account |-> acc.account, agent_address |-> acc.agent_address]

\* SignatureManager.verify_signature
verify_signature_mut(message, signature, expected_address) ==
    LET rec == recover_message(message, signature)
    IN  IF rec.raised # "" THEN Return(FALSE) ELSE Return(TRUE)

verify_signature(message, signature, expected_address) ==
    LET rec == recover_message(message, signature)
        body == IF "encode_defunct" \notin ModuleGlobals
                THEN Raise("NameError")
                ELSE IF rec.raised # "" THEN Raise(rec.raised)
                ELSE Return(Lower(rec.value) = Lower(expected_address))
    IN  IF body.raised # "" THEN Return(FALSE) ELSE body

ClaimedAddresses == {"0xAb1", "0xab1", "0xCd2", "0xEf3", "0x000"}

NoCall == [op |-> "none", args |-> <<>>, raised |-> "", ret |-> None]

GetAccount ==
    LET acc == _get_account(_account, private_key, agent_address)
    IN  /\ _account' = acc.account
        /\ agent_address' = acc.agent_address
        /\ last' = [op |-> "_get_account", args |-> <<>>, raised |-> acc.raised,
                    ret |-> IF acc.raised = "" THEN acc.account ELSE None]
        /\ UNCHANGED <<private_key, dbVars, restVars>>

SignMessage(m) ==
    LET r == sign_message(m, _account, private_key, agent_address)
    IN  /\ _account' = r.account
        /\ agent_address' = r.agent_address
        /\ last' = [op |-> "sign_message", args |-> <<m>>, raised |-> r.raised,
                    ret |-> r.value]
        /\ UNCHANGED <<private_key, dbVars, restVars>>

VerifySignature(m, s, a) ==
    LET r == verify_signature(m, s, a)
    IN  /\ last' = [op |-> "verify_signature", args |-> <<m, s, a>>,
                    raised |-> r.raised, ret |-> r.value]
        /\ UNCHANGED <<signerVars, dbVars, restVars>>

(***************************************************************************)
(* services/database.py                                                    *)
(***************************************************************************)
DefaultChainId == 10143

ScanIds == {"s1", "s2"}
BountyIds == {1, 2}

\* the arguments callers pass to save_scan after scan_id
ScanArgs ==
    { [contract_address |-> "0xC1", chain_id |-> DefaultChainId, status |-> "queued",
       risk_score |-> 0, vulnerability_count |-> 0, result_data |-> None],
      [contract_address |-> "0xC1", chain_id |-> DefaultChainId, status |-> "completed",
       risk_score |-> 1, vulnerability_count |-> 2, result_data |-> "vulns"],
      [contract_address |-> "0xC2", chain_id |-> 1, status |-> "failed",
       risk_score |-> 0, vulnerability_count |-> 1, result_data |-> None] }

\* the arguments the API server passes to save_bounty after bounty_id
ServerBountyArgs ==
    { [contract_address |-> None, amount_wei |-> 5, status |-> "created"] }

\* the arguments callers pass to save_bounty after bounty_id
BountyArgs ==
    ServerBountyArgs \cup
    { [contract_address |-> "0xC1", amount_wei |-> 0, status |-> "active"] }

ScanRow(id, scan_id, a, now) ==
    [id |-> id, scan_id |-> scan_id, contract_address |-> a.contract_address,
     chain_id |-> a.chain_id, status |-> a.status, risk_score |-> a.risk_score,
     vulnerability_count |-> a.vulnerability_count,
     result_data |-> a.result_data, created_at |-> now]

BountyRow(id, bounty_id, a, now) ==
    [id |-> id, bounty_id |-> bounty_id, contract_address |-> a.contract_address,
     amount_wei |-> a.amount_wei, status |-> a.status, created_at |-> now,
     claimed_at |-> NULL]

StatsRow(id, now) ==
    [id |-> id, contracts_scanned |-> 0, vulnerabilities_found |-> 0,
     bounties_earned |-> 0, gigs_completed |-> 0, updated_at |-> now]

MaxId(rows) == IF rows = {} THEN 0 ELSE CHOOSE n \in {r.id : r \in rows} :
                                         \A r \in rows : r.id <= n

\* _init_db on an existing database: the tables are kept (CREATE TABLE IF NOT
\* EXISTS) and the stats row is inserted unless a row with id 1 exists
_init_db_mut(statsRows, now) ==
    statsRows \cup {StatsRow(MaxId(statsRows) + 1, now)}

_init_db(statsRows, now) ==
    IF \E r \in statsRows : r.id = 1 THEN statsRows
    ELSE statsRows \cup {StatsRow(1, now)}

\* INSERT OR REPLACE INTO scans: scan_id is UNIQUE, so the conflicting row is
\* deleted and a row with the next AUTOINCREMENT id is inserted
insert_or_replace_scan_mut(rows, seq, scan_id, a, now) ==
    rows \cup {ScanRow(seq + 1, scan_id, a, now)}

insert_or_replace_scan(rows, seq, scan_id, a, now) ==
    {r \in rows : r.scan_id # scan_id} \cup {ScanRow(seq + 1, scan_id, a, now)}

\* UPDATE stats SET <stat_name> = <stat_name> + 1, updated_at = now WHERE id = 1
_increment_stat(statsRows, stat_name, now) ==
    { IF r.id = 1
      THEN [r EXCEPT ![stat_name] = @ + 1, !.updated_at = now]
      ELSE r : r \in statsRows }

\* UPDATE stats SET vulnerabilities_found = vulnerabilities_found + count
increment_vulnerabilities(statsRows, count, now) ==
    { IF r.id = 1
      THEN [r EXCEPT !.vulnerabilities_found = @ + count, !.updated_at = now]
      ELSE r : r \in statsRows }

\* INSERT INTO bounties: bounty_id carries no UNIQUE constraint
insert_bounty(rows, seq, bounty_id, a, now) ==
    rows \cup {BountyRow(seq + 1, bounty_id, a, now)}

\* SELECT * FROM scans WHERE scan_id = ?, fetchone
get_scan(rows, scan_id) ==
    IF \E r \in rows : r.scan_id = scan_id
    THEN CHOOSE r \in rows : r.scan_id = scan_id /\
                             \A q \in rows : q.scan_id = scan_id => r.id <= q.id
    ELSE None

\* SELECT * FROM bounties WHERE bounty_id = ?, fetchone (rows in rowid order)
get_bounty(rows, bounty_id) ==
    IF \E r \in rows : r.bounty_id = bounty_id
    THEN CHOOSE r \in rows : r.bounty_id = bounty_id /\
                             \A q \in rows : q.bounty_id = bounty_id => r.id <= q.id
    ELSE None

\* UPDATE bounties SET claimed_at = now WHERE bounty_id = ?; rowcount > 0
claim_bounty_mut(rows, bounty_id, now) ==
    [rows |-> { IF r.bounty_id = bounty_id
                THEN [r EXCEPT !.claimed_at = now, !.status = "claimed"]
                ELSE r : r \in rows },
     ret |-> \E r \in rows : r.bounty_id = bounty_id]

claim_bounty(rows, bounty_id, now) ==
    [rows |-> { IF r.bounty_id = bounty_id
                THEN [r EXCEPT !.claimed_at = now] ELSE r : r \in rows },
     ret |-> \E r \in rows : r.bounty_id = bounty_id]

RECURSIVE SumVulnerabilityCount(_)
SumVulnerabilityCount(rows) ==
    IF rows = {} THEN 0
    ELSE LET r == CHOOSE x \in rows : TRUE
         IN  r.vulnerability_count + SumVulnerabilityCount(rows \ {r})

\* get_stats: the counts are taken from the scans and bounties tables
get_stats_mut(scanRows, bountyRows, statsRows) ==
    LET row == CHOOSE r \in statsRows : r.id = 1
    IN  [contracts_scanned |-> row.contracts_scanned,
         vulnerabilities_found |-> row.vulnerabilities_found,
         bounties_earned |-> Cardinality({r \in bountyRows : r.claimed_at # NULL}),
         gigs_completed |-> 0]

get_stats(scanRows, bountyRows, statsRows) ==
    [contracts_scanned |-> Cardinality(scanRows),
     vulnerabilities_found |-> SumVulnerabilityCount(scanRows),
     bounties_earned |-> Cardinality({r \in bountyRows : r.claimed_at # NULL}),
     gigs_completed |-> 0]

\* DatabaseService(db_url) on the database that is already in use
InitDb ==
    /\ stats' = _init_db(stats, clock)
    /\ last' = [op |-> "_init_db", args |-> <<>>, raised |-> "", ret |-> None]
    /\ UNCHANGED <<signerVars, restVars, scans, scans_seq, bounties, bounties_seq, clock, saved>>

SaveScan(scan_id, a) ==
    /\ scans_seq + bounties_seq < MaxRows
    /\ scans' = insert_or_replace_scan(scans, scans_seq, scan_id, a, clock)
    /\ scans_seq' = scans_seq + 1
    /\ stats' = _increment_stat(stats, "contracts_scanned", clock)
    /\ saved' = (scan_id :> a) @@ saved
    /\ last' = [op |-> "save_scan", args |-> <<scan_id, a>>, raised |-> "",
                ret |-> scans_seq + 1]
    /\ UNCHANGED <<signerVars, restVars, bounties, bounties_seq, clock>>

SaveBounty(bounty_id, a) ==
    /\ scans_seq + bounties_seq < MaxRows
    /\ bounties' = insert_bounty(bounties, bounties_seq, bounty_id, a, clock)
    /\ bounties_seq' = bounties_seq + 1
    /\ last' = [op |-> "save_bounty", args |-> <<bounty_id, a>>, raised |-> "",
                ret |-> bounties_seq + 1]
    /\ UNCHANGED <<signerVars, restVars, scans, scans_seq, stats, clock, saved>>

ClaimBounty(bounty_id) ==
    LET r == claim_bounty(bounties, bounty_id, clock)
    IN  /\ bounties' = r.rows
        /\ last' = [op |-> "claim_bounty", args |-> <<bounty_id>>, raised |-> "",
                    ret |-> r.ret]
        /\ UNCHANGED <<signerVars, restVars, scans, scans_seq, bounties_seq, stats, clock, saved>>

IncrementVulnerabilities(count) ==
    /\ \A r \in stats : r.vulnerabilities_found + count <= MaxCounter
    /\ stats' = increment_vulnerabilities(stats, count, clock)
    /\ last' = [op |-> "increment_vulnerabilities", args |-> <<count>>,
                raised |-> "", ret |-> None]
    /\ UNCHANGED <<signerVars, restVars, scans, scans_seq, bounties, bounties_seq, clock, saved>>

\* time passes: CURRENT_TIMESTAMP advances
Tick ==
    /\ clock < MaxClock
    /\ clock' = clock + 1
    /\ last' = [op |-> "tick", args |-> <<>>, raised |-> "", ret |-> None]
    /\ UNCHANGED <<signerVars, restVars, scans, scans_seq, bounties, bounties_seq, stats, saved>>

(***************************************************************************)
(* services/scanner.py                                                     *)
(***************************************************************************)
MaxRpcCalls == 3     \* eth_getCode calls the scanner may issue
MaxTxs == 2          \* transactions the scanner may sign

\* accounts of the chain, and the address strings callers pass: two
\* spellings of one account, a second account, and a string that is no
\* address
Accounts == {"0xA1", "0xB2"}
ScanAddresses == {"0xA1", "0xa1", "0xB2", "nothex"}
\* eth_getCode(...).hex() for an account without code, for contract code,
\* and for one byte of code printed without the 0x prefix
Codes == {"0x", "0x6080", "00"}

Truthy(v) == v \notin {None, ""}

\* Web3.to_checksum_address
to_checksum_address(address) ==
    CASE address \in Accounts -> Return(address)
      [] address = "0xa1" -> Return("0xA1")
      [] OTHER -> Raise("ValueError")

\* f with f[k] = v
Put(f, k, v) == [x \in DOMAIN f \cup {k} |-> IF x = k THEN v ELSE f[x]]

\* the try block of get_contract_code: rpc_ok says whether eth_getCode
\* answers
fetch_code(cache, address, chain, rpc_ok) ==
    LET cs == to_checksum_address(address)
    IN IF cs.raised # ""
       THEN [cache |-> cache, value |-> "", rpc |-> 0, fetched |-> FALSE]
       ELSE IF ~rpc_ok
       THEN [cache |-> cache, value |-> "", rpc |-> 1, fetched |-> FALSE]
       ELSE [cache |-> Put(cache, address, chain[cs.value]),
             value |-> chain[cs.value], rpc |-> 1, fetched |-> TRUE]

get_contract_code_mut(cache, address, chain, rpc_ok) ==
    fetch_code(cache, address, chain, rpc_ok)

get_contract_code(cache, address, chain, rpc_ok) ==
    IF address \in DOMAIN cache
    THEN [cache |-> cache, value |-> cache[address], rpc |-> 0, fetched |-> FALSE]
    ELSE fetch_code(cache, address, chain, rpc_ok)

keccak(hexstr) == "keccak:" \o hexstr

is_contract_mut(bytecode) == bytecode # "0x"

is_contract(bytecode) == bytecode # "0x" /\ Len(bytecode) > 2

\* the ScanResult scan_address builds from the fetched bytecode
scan_address(address, bytecode) ==
    [address |-> address,
     bytecode |-> bytecode,
     source_code |-> None,
     abi |-> None,
     is_contract |-> is_contract(bytecode),
     bytecode_hash |-> IF bytecode # "" THEN keccak(bytecode) ELSE ""]

EscrowConfigs == {None, "", "0xE5c", "notanaddress"}

\* _get_escrow_contract: the contract instance, created on first use
_get_escrow_contract_mut(contract, cfg) ==
    IF contract = None
    THEN IF cfg = "notanaddress" THEN Raise("ValueError") ELSE Return("EscrowContract")
    ELSE Return(contract)

_get_escrow_contract(contract, cfg) ==
    IF contract = None /\ Truthy(cfg)
    THEN IF cfg = "notanaddress" THEN Raise("ValueError") ELSE Return("EscrowContract")
    ELSE Return(contract)

\* what the chain does with one transaction
TxOutcomes == {"ok", "build_fails", "send_fails"}
CreateOutcomes == TxOutcomes \cup {"count_fails"}

_sign_and_send(outcome) ==
    IF outcome = "send_fails"
    THEN [raised |-> "Exception", value |-> None, signed |-> 1, sent |-> 0]
    ELSE [raised |-> "", value |-> "0xtx", signed |-> 1, sent |-> 1]

\* build_transaction: Account.from_key raises without a private key
build_transaction(key, outcome) ==
    IF ~Truthy(key) \/ outcome = "build_fails" THEN Raise("Exception") ELSE Return("tx")

\* the body shared by claim_bounty, dispute_bounty, resolve_dispute and
\* submit_report once the contract instance is known
escrow_transaction(contract, key, outcome) ==
    IF contract = None
    THEN [value |-> "0xplaceholder", signed |-> 0, sent |-> 0]
    ELSE IF build_transaction(key, outcome).raised # ""
    THEN [value |-> "error", signed |-> 0, sent |-> 0]
    ELSE LET r == _sign_and_send(outcome)
         IN [value |-> IF r.raised # "" THEN "error" ELSE r.value,
             signed |-> r.signed, sent |-> r.sent]

scanner_create_bounty(contract, key, outcome, count) ==
    IF contract = None
    THEN [value |-> <<1, "0xplaceholder">>, signed |-> 0, sent |-> 0]
    ELSE IF build_transaction(key, outcome).raised # ""
    THEN [value |-> <<0, "error">>, signed |-> 0, sent |-> 0]
    ELSE LET r == _sign_and_send(outcome)
         IN [value |-> IF r.raised # "" \/ outcome = "count_fails"
                       THEN <<0, "error">> ELSE <<count, r.value>>,
             signed |-> r.signed, sent |-> r.sent]

\* the status get_bounty_status derives from the flags of the bounty
BountyStatuses == {"active", "claimed", "disputed"}

scanner_get_bounty_status(contract, bounty_id, outcome, status) ==
    IF contract = None
    THEN [id |-> bounty_id, claimed |-> FALSE, disputed |-> FALSE,
          expires_at |-> 0, status |-> "unknown"]
    ELSE IF outcome # "ok"
    THEN [error |-> "error"]
    ELSE [id |-> bounty_id, developer |-> "0xDev", amount |-> 1,
          claimed |-> status # "active", disputed |-> status = "disputed",
          ipfsHash |-> "Qm", expiresAt |-> 1, status |-> status]

TxOps == {"scanner.claim_bounty", "scanner.dispute_bounty",
          "scanner.resolve_dispute", "scanner.submit_report"}

\* await scanner.get_contract_code(address)
GetContractCode(address, rpc_ok) ==
    LET r == get_contract_code(_cache, address, chain_code, rpc_ok)
    IN /\ rpc_calls + r.rpc <= MaxRpcCalls
       /\ _cache' = r.cache
       /\ rpc_calls' = rpc_calls + r.rpc
       /\ fetched' = IF r.fetched /\ address \notin DOMAIN fetched
                     THEN Put(fetched, address, r.value) ELSE fetched
       /\ last' = [op |-> "get_contract_code", args |-> <<address, rpc_ok>>,
                   raised |-> "", ret |-> r.value]
       /\ UNCHANGED <<signerVars, dbVars, chain_code, escrowVars, jobVars, flowVars,
                   tailVars>>

\* await scanner.scan_address(address)
ScanAddress(address, rpc_ok) ==
    LET r == get_contract_code(_cache, address, chain_code, rpc_ok)
    IN /\ rpc_calls + r.rpc <= MaxRpcCalls
       /\ _cache' = r.cache
       /\ rpc_calls' = rpc_calls + r.rpc
       /\ fetched' = IF r.fetched /\ address \notin DOMAIN fetched
                     THEN Put(fetched, address, r.value) ELSE fetched
       /\ last' = [op |-> "scan_address",
                   args |-> <<address, rpc_ok, r.rpc = 1 /\ ~rpc_ok>>,
                   raised |-> "", ret |-> scan_address(address, r.value)]
       /\ UNCHANGED <<signerVars, dbVars, chain_code, escrowVars, jobVars, flowVars,
                   tailVars>>

\* the code at an account changes (deployment, self-destruct)
ChainChange(account, code) ==
    /\ chain_code[account] # code
    /\ chain_code' = [chain_code EXCEPT ![account] = code]
    /\ last' = [op |-> "chain", args |-> <<account, code>>, raised |-> "",
                ret |-> None]
    /\ UNCHANGED <<signerVars, dbVars, _cache, rpc_calls, fetched, escrowVars,
                   jobVars, flowVars,
                   tailVars>>

\* the node becomes reachable or unreachable
Connection ==
    /\ connected' = ~connected
    /\ last' = [op |-> "connection", args |-> <<>>, raised |-> "", ret |-> None]
    /\ UNCHANGED <<signerVars, dbVars, cacheVars, escrow, _escrow_contract,
                   txs_signed, txs_sent, jobVars, flowVars,
                   tailVars>>

\* await scanner.claim_bounty / dispute_bounty / resolve_dispute /
\* submit_report
ScannerTx(op, bounty_id, outcome) ==
    LET c == _get_escrow_contract(_escrow_contract, escrow)
        r == escrow_transaction(c.value, private_key, outcome)
    IN IF c.raised # ""
       THEN /\ last' = [op |-> op, args |-> <<bounty_id, outcome>>,
                        raised |-> c.raised, ret |-> None]
            /\ UNCHANGED <<signerVars, dbVars, cacheVars, escrowVars, jobVars, flowVars,
                   tailVars>>
       ELSE /\ txs_signed + r.signed <= MaxTxs
            /\ _escrow_contract' = c.value
            /\ txs_signed' = txs_signed + r.signed
            /\ txs_sent' = txs_sent + r.sent
            /\ last' = [op |-> op, args |-> <<bounty_id, outcome>>,
                        raised |-> "", ret |-> r.value]
            /\ UNCHANGED <<signerVars, dbVars, cacheVars, escrow, connected,
                           jobVars, flowVars,
                   tailVars>>

\* await scanner.create_bounty(amount_wei, ipfs_hash, expires_in)
ScannerCreateBounty(outcome, count) ==
    LET c == _get_escrow_contract(_escrow_contract, escrow)
        r == scanner_create_bounty(c.value, private_key, outcome, count)
    IN IF c.raised # ""
       THEN /\ last' = [op |-> "scanner.create_bounty", args |-> <<count, outcome>>,
                        raised |-> c.raised, ret |-> None]
            /\ UNCHANGED <<signerVars, dbVars, cacheVars, escrowVars, jobVars, flowVars,
                   tailVars>>
       ELSE /\ txs_signed + r.signed <= MaxTxs
            /\ _escrow_contract' = c.value
            /\ txs_signed' = txs_signed + r.signed
            /\ txs_sent' = txs_sent + r.sent
            /\ last' = [op |-> "scanner.create_bounty", args |-> <<count, outcome>>,
                        raised |-> "", ret |-> r.value]
            /\ UNCHANGED <<signerVars, dbVars, cacheVars, escrow, connected,
                           jobVars, flowVars,
                   tailVars>>

\* await scanner.get_bounty_status(bounty_id)
ScannerGetBountyStatus(bounty_id, outcome, status) ==
    LET c == _get_escrow_contract(_escrow_contract, escrow)
    IN IF c.raised # ""
       THEN /\ last' = [op |-> "scanner.get_bounty_status",
                        args |-> <<bounty_id, outcome>>,
                        raised |-> c.raised, ret |-> None]
            /\ UNCHANGED <<signerVars, dbVars, cacheVars, escrowVars, jobVars, flowVars,
                   tailVars>>
       ELSE /\ _escrow_contract' = c.value
            /\ last' = [op |-> "scanner.get_bounty_status",
                        args |-> <<bounty_id, outcome>>, raised |-> "",
                        ret |-> scanner_get_bounty_status(c.value, bounty_id,
                                                          outcome, status)]
            /\ UNCHANGED <<signerVars, dbVars, cacheVars, escrow, txs_signed,
                           txs_sent, connected, jobVars, flowVars,
                   tailVars>>

(***************************************************************************)
(* api/server.py                                                           *)
(***************************************************************************)
\* the handler of GET /api/v1/scan/{scan_id}; eval_ok says whether eval()
\* of the stored result_data succeeds
get_scan_status_mut(rows, scan_id, eval_ok) ==
    [status_code |-> 200,
     body |-> [scan_id |-> scan_id, status |-> "unknown"]]

get_scan_status(rows, scan_id, eval_ok) ==
    IF ~(\E r \in rows : r.scan_id = scan_id)
    THEN [status_code |-> 404, body |-> [detail |-> "Scan not found"]]
    ELSE LET scan == get_scan(rows, scan_id)
         IN [status_code |-> 200,
             body |-> [scan_id |-> scan.scan_id,
                       status |-> scan.status,
                       contract_address |-> scan.contract_address,
                       risk_score |-> scan.risk_score,
                       vulnerabilities |->
                           IF scan.result_data # None /\ eval_ok
                           THEN scan.result_data ELSE "[]",
                       created_at |-> scan.created_at]]

GetScanStatus(scan_id, eval_ok) ==
    /\ last' = [op |-> "api.get_scan_status", args |-> <<scan_id>>,
                raised |-> "", ret |-> get_scan_status(scans, scan_id, eval_ok)]
    /\ UNCHANGED <<signerVars, dbVars, restVars>>

\* the endpoints POST /api/v1/bounty/create and /api/v1/bounty/{id}/...
BountyEndpoints == {"create", "dispute", "resolve", "claim", "report"}

\* requests: the bounty id of the path or body, the ipfs_hash of a create
\* request (the one test_api.py posts, and a CIDv0), whether the other
\* fields are well formed, and whether the client is over its rate limit
IpfsHashes == {"QmTest123", "QmYwAPJzv5CZsnA625s3Xf2nemtYgPpHdWEz79ojWnPbdG"}
Requests ==
    [bounty_id : 0..2, ipfs_hash : IpfsHashes, well_formed : BOOLEAN,
     limited : BOOLEAN]

\* pydantic validation of the request models
request_valid(endpoint, req) ==
    /\ req.well_formed
    /\ endpoint = "create" => Len(req.ipfs_hash) >= 46 /\ Len(req.ipfs_hash) <= 59
    /\ endpoint \in {"dispute", "resolve"} => req.bounty_id > 0

\* the status code with which a request is answered before the scanner is
\* called, 0 when it is not
early_response(endpoint, req, conn) ==
    CASE ~request_valid(endpoint, req) -> 422
      [] req.limited /\ endpoint # "report" -> 429
      [] ~conn -> 503
      [] endpoint = "report" /\ req.bounty_id <= 0 -> 400
      [] OTHER -> 0

Response(code, status) == [status_code |-> code, status |-> status]

\* one request to a bounty endpoint that writes to the chain
ApiBounty(endpoint, req, outcome, count) ==
    LET early == early_response(endpoint, req, connected)
        c == _get_escrow_contract(_escrow_contract, escrow)
        r == IF endpoint = "create"
             THEN scanner_create_bounty(c.value, private_key, outcome, count)
             ELSE escrow_transaction(c.value, private_key, outcome)
        op == "api." \o endpoint
    IN IF early # 0 \/ c.raised # ""
       THEN /\ last' = [op |-> op, args |-> <<req.bounty_id, "">>, raised |-> "",
                        ret |-> Response(IF early # 0 THEN early ELSE 500, "error")]
            /\ UNCHANGED <<signerVars, dbVars, restVars>>
       ELSE /\ txs_signed + r.signed <= MaxTxs
            /\ _escrow_contract' = c.value
            /\ txs_signed' = txs_signed + r.signed
            /\ txs_sent' = txs_sent + r.sent
            /\ IF endpoint = "create"
               THEN /\ scans_seq + bounties_seq < MaxRows
                    /\ bounties' = insert_bounty(bounties, bounties_seq, r.value[1],
                                        CHOOSE a \in ServerBountyArgs : TRUE, clock)
                    /\ bounties_seq' = bounties_seq + 1
                    /\ last' = [op |-> op, args |-> <<r.value[1], r.value[2]>>,
                                raised |-> "",
                                ret |-> Response(200, "created")]
               ELSE /\ UNCHANGED <<bounties, bounties_seq>>
                    /\ last' = [op |-> op, args |-> <<req.bounty_id, r.value>>,
                                raised |-> "",
                                ret |-> IF r.value = "error"
                                        THEN Response(400, "error")
                                        ELSE Response(200, endpoint)]
            /\ UNCHANGED <<signerVars, scans, scans_seq, stats, clock, saved,
                           cacheVars, escrow, connected, jobVars, flowVars,
                   tailVars>>

(***************************************************************************)
(* services/minimax.py                                                     *)
(***************************************************************************)
\* what the HTTP call to the AI endpoint yields: a failure of the call, a
\* body that is not JSON, a JSON body without "choices", with an empty
\* "choices" list or with a null content, or a content string.  A content
\* string is a body, possibly inside a markdown fence (opened with or
\* without the word json) that may lack its closing line.
AiResponses ==
    { r \in [kind : {"network_error", "http_error", "not_json", "no_choices",
                     "choices_empty", "content_null", "content"},
             fence : {"", "fence_json", "fence"},
             closed : BOOLEAN,
             body : {"", "text", "array", "empty_object", "report"}] :
        /\ r.kind # "content" => r.fence = "" /\ r.body = ""
        /\ r.fence = "" => r.closed }

\* _call: post, raise_for_status, response.json()
_call(resp) ==
    CASE resp.kind = "network_error" -> Raise("ConnectError")
      [] resp.kind = "http_error" -> Raise("HTTPStatusError")
      [] resp.kind = "not_json" -> Raise("JSONDecodeError")
      [] OTHER -> Return(resp)

\* response["choices"][0]["message"]["content"]; the kind content_null
\* stands for the content None
Content(response) ==
    CASE response.kind = "no_choices" -> Raise("KeyError")
      [] response.kind = "choices_empty" -> Raise("IndexError")
      [] OTHER -> Return(response)

\* content[7:-3] or content[3:-3] behind a fence: without the closing fence
\* the slice cuts the body short
StripFence(content) ==
    IF content.fence = "" \/ content.closed \/ content.body = ""
    THEN content.body
    ELSE "truncated"

json_loads(text) ==
    IF text \in {"", "text", "truncated"} THEN Raise("JSONDecodeError") ELSE Return(text)

FailedAnalysis ==
    [vulnerabilities |-> <<>>, overall_risk_score |-> 0,
     summary |-> "Analysis failed", contract_address |-> ""]

\* the body of analyze_contract's try block
ParseAnalysis(resp) ==
    LET response == _call(resp)
        content == Content(response.value)
        data == json_loads(StripFence(content.value))
    IN CASE response.raised # "" -> Raise(response.raised)
         [] content.raised # "" -> Raise(content.raised)
         [] content.value.kind = "content_null" -> Raise("AttributeError")
         [] data.raised # "" -> Raise(data.raised)
         [] data.value = "array" -> Raise("AttributeError")
         [] data.value = "report" ->
              Return([vulnerabilities |-> <<"reentrancy", "overflow">>,
                      overall_risk_score |-> 8, summary |-> "report",
                      contract_address |-> ""])
         [] OTHER ->
              Return([vulnerabilities |-> <<>>, overall_risk_score |-> 0,
                      summary |-> "No issues found", contract_address |-> ""])

analyze_contract_mut(resp) ==
    LET r == ParseAnalysis(resp)
    IN IF r.raised = "JSONDecodeError" THEN Return(FailedAnalysis) ELSE r

analyze_contract(resp) ==
    LET r == ParseAnalysis(resp)
    IN IF r.raised \in {"JSONDecodeError", "KeyError"}
       THEN Return(FailedAnalysis) ELSE r

VulnerabilityTypes == {"reentrancy", "overflow"}
ContractAddresses == {"0xC1", "0xC2"}

Fallback(type, contract_address) ==
    "Security Alert: " \o type \o " found in " \o contract_address

generate_warning(type, contract_address, resp) ==
    LET response == _call(resp)
        content == Content(response.value)
        raised == IF response.raised # "" THEN response.raised ELSE content.raised
    IN CASE raised \in {"JSONDecodeError", "KeyError"} ->
              Return(Fallback(type, contract_address))
         [] raised # "" -> Raise(raised)
         [] content.value.kind = "content_null" -> Return(None)
         [] OTHER -> Return(content.value.fence \o content.value.body)

AnalyzeContract(resp) ==
    LET r == analyze_contract(resp)
    IN /\ last' = [op |-> "analyze_contract", args |-> <<resp>>,
                   raised |-> r.raised, ret |-> r.value]
       /\ UNCHANGED <<signerVars, dbVars, restVars>>

GenerateWarning(type, contract_address, resp) ==
    LET r == generate_warning(type, contract_address, resp)
    IN /\ last' = [op |-> "generate_warning",
                   args |-> <<type, contract_address, resp>>,
                   raised |-> r.raised, ret |-> r.value]
       /\ UNCHANGED <<signerVars, dbVars, restVars>>

(***************************************************************************)
(* jobs/scanner_job.py, jobs/bounty_job.py, main.py                        *)
(***************************************************************************)
MaxCycles == 2       \* cycles a job may begin

\* what run() does when the awaited cycle has returned ("") or raised:
\* except Exception logs, and the loop goes on to asyncio.sleep
run_after_cycle_mut(raised) == IF raised = "" THEN "sleep" ELSE "failed"

run_after_cycle(raised) == IF raised \in {"", "Exception"} THEN "sleep" ELSE "failed"

\* while self._running, evaluated when the sleep has completed
while_running(running) == IF running THEN "cycle" ELSE "done"

\* trigger_now: whether it raises, and whether it creates a task that runs
\* a cycle
trigger_now_mut(running, task) ==
    [raised |-> "", spawn |-> running]

trigger_now(running, task) ==
    CASE ~running -> [raised |-> "", spawn |-> FALSE]
      [] task = None -> [raised |-> "AttributeError", spawn |-> FALSE]
      [] OTHER -> [raised |-> "", spawn |-> task # "done"]

JobCall(op, j, raised) == [op |-> op, args |-> <<j>>, raised |-> raised, ret |-> None]

\* CyberMercenary.start: asyncio.create_task(job.run()) for both jobs
Start ==
    /\ \A j \in Jobs : job_pc[j] = "idle"
    /\ job_pc' = [j \in Jobs |-> "scheduled"]
    /\ agent_running' = TRUE
    /\ last' = JobCall("start", "agent", "")
    /\ UNCHANGED <<signerVars, dbVars, cacheVars, escrowVars, _running, _task,
                   active, cycles, sleeps, stop_called, flowVars, agent_stopped,
                   metricsVars, logVars>>

\* the event loop starts the coroutine: run() up to the first await, which
\* is inside the first cycle
RunStart(j) ==
    /\ job_pc[j] = "scheduled"
    /\ _running' = [_running EXCEPT ![j] = TRUE]
    /\ job_pc' = [job_pc EXCEPT ![j] = while_running(TRUE)]
    /\ cycles' = [cycles EXCEPT ![j] = @ + 1]
    /\ active' = [active EXCEPT ![j] = @ + 1]
    /\ last' = JobCall("run", j, "")
    /\ UNCHANGED <<signerVars, dbVars, cacheVars, escrowVars, flowVars, tailVars, _task, sleeps,
                   stop_called>>

\* the cycle awaited by run() returns or raises; run() goes on to the sleep
CycleEnd(j, raised) ==
    /\ job_pc[j] = "cycle"
    /\ job_pc' = [job_pc EXCEPT ![j] = run_after_cycle(raised)]
    /\ active' = [active EXCEPT ![j] = @ - 1]
    /\ last' = JobCall("cycle_end", j, raised)
    /\ UNCHANGED <<signerVars, dbVars, cacheVars, escrowVars, flowVars, tailVars, _running, _task,
                   cycles, sleeps, stop_called>>

\* asyncio.sleep(interval) completes; run() tests the flag and either
\* begins the next cycle or returns
SleepEnd(j) ==
    LET next == while_running(_running[j])
    IN /\ job_pc[j] = "sleep"
       /\ next = "cycle" => cycles[j] < MaxCycles
       /\ sleeps' = [sleeps EXCEPT ![j] = @ + 1]
       /\ job_pc' = [job_pc EXCEPT ![j] = next]
       /\ cycles' = [cycles EXCEPT ![j] = IF next = "cycle" THEN @ + 1 ELSE @]
       /\ active' = [active EXCEPT ![j] = IF next = "cycle" THEN @ + 1 ELSE @]
       /\ last' = JobCall("sleep_end", j, "")
       /\ UNCHANGED <<signerVars, dbVars, cacheVars, escrowVars, flowVars, tailVars, _running,
                      _task, stop_called>>

\* await job.stop(): clears the flag, and cancels self._task if there is one
Stop(j) ==
    /\ _running' = [_running EXCEPT ![j] = FALSE]
    /\ _task' = [_task EXCEPT ![j] = IF @ # None THEN "done" ELSE @]
    /\ active' = [active EXCEPT ![j] = IF _task[j] = "pending" THEN @ - 1 ELSE @]
    /\ stop_called' = [stop_called EXCEPT ![j] = @ \/ job_pc[j] # "idle"]
    /\ last' = JobCall("stop", j, "")
    /\ UNCHANGED <<signerVars, dbVars, cacheVars, escrowVars, flowVars, tailVars, job_pc, cycles,
                   sleeps>>

\* await agent.stop(), which main() calls once start() has been entered:
\* the agent's own flag is cleared and nothing else
AgentStop ==
    /\ agent_running
    /\ agent_running' = FALSE
    /\ agent_stopped' = TRUE
    /\ last' = [op |-> "agent.stop", args |-> <<>>, raised |-> "", ret |-> None]
    /\ UNCHANGED <<signerVars, dbVars, cacheVars, escrowVars, jobVars, flowVars,
                   metricsVars, logVars>>

\* scanner_job.trigger_now()
TriggerNow ==
    LET r == trigger_now(_running["scanner"], _task["scanner"])
    IN /\ _task' = [_task EXCEPT !["scanner"] = IF r.spawn THEN "pending" ELSE @]
       /\ active' = [active EXCEPT !["scanner"] = IF r.spawn THEN @ + 1 ELSE @]
       /\ last' = JobCall("trigger_now", "scanner", r.raised)
       /\ UNCHANGED <<signerVars, dbVars, cacheVars, escrowVars, flowVars, tailVars, job_pc,
                      _running, cycles, sleeps, stop_called>>

(***************************************************************************)
(* api/server.py: scan submission and the background scan; main.py         *)
(***************************************************************************)
\* the arguments of one save_scan call
SaveArgs(address, status, risk_score, vulnerability_count, result_data) ==
    [contract_address |-> address, chain_id |-> DefaultChainId,
     status |-> status, risk_score |-> risk_score,
     vulnerability_count |-> vulnerability_count, result_data |-> result_data]

\* SignatureManager.sign_warning: the structured text is signed by
\* sign_message
sign_warning(warning, account, key, addr) ==
    sign_message(warning, account, key, addr)

\* perform_scan after scan_address has returned result: the save_scan
\* arguments it ends with, the calls it makes to the AI client and to the
\* signer, and the signer's state.  api_key says whether
\* settings.minimax.api_key is set, resp is what the AI endpoint answers.
perform_scan_mut(address, result, api_key, resp, account, key, addr) ==
    [save |-> SaveArgs(address, "queued", 0, 0, None),
     ai_calls |-> 0, sign_calls |-> 0, vulnerabilities |-> 0, increment |-> 0,
     account |-> account, agent_address |-> addr]

perform_scan(address, result, api_key, resp, account, key, addr) ==
    LET analysis == analyze_contract(resp)
        n == IF analysis.raised = "" THEN Len(analysis.value.vulnerabilities) ELSE 0
        signed == sign_warning("warning", account, key, addr)
        base == [save |-> SaveArgs(address, "failed", 0, 0, None),
                 ai_calls |-> 0, sign_calls |-> 0, vulnerabilities |-> 0,
                 increment |-> 0, account |-> account, agent_address |-> addr]
    IN CASE ~result.is_contract ->
              [base EXCEPT !.save = SaveArgs(address, "not_contract", 0, 0, None)]
         [] ~api_key ->
              [base EXCEPT !.save = SaveArgs(address, "completed", 0, 0, None)]
         [] analysis.raised # "" ->
              [base EXCEPT !.ai_calls = 1]
         [] n = 0 ->
              [base EXCEPT !.ai_calls = 1,
                           !.save = SaveArgs(address, "completed",
                                      analysis.value.overall_risk_score, 0, None)]
         [] signed.raised # "" ->
              [base EXCEPT !.ai_calls = 1, !.sign_calls = 1, !.vulnerabilities = n,
                           !.account = signed.account,
                           !.agent_address = signed.agent_address]
         [] OTHER ->
              [base EXCEPT !.ai_calls = 1, !.sign_calls = 1, !.vulnerabilities = n,
                           !.increment = n,
                           !.account = signed.account,
                           !.agent_address = signed.agent_address,
                           !.save = SaveArgs(address, "completed",
                                      analysis.value.overall_risk_score, n, "vulns")]

\* CyberMercenary.analyze_contract after get_contract_code: resp answers
\* analyze_contract, wresp answers generate_warning
CyberMercenary_analyze_contract(address, resp, wresp, account, key, addr) ==
    LET analysis == analyze_contract(resp)
        n == IF analysis.raised = "" THEN Len(analysis.value.vulnerabilities) ELSE 0
        warning == generate_warning(analysis.value.vulnerabilities[1], address, wresp)
        signed == sign_warning("warning", account, key, addr)
        base == [raised |-> "", ai_calls |-> 1, sign_calls |-> 0,
                 vulnerabilities |-> n, account |-> account, agent_address |-> addr]
    IN CASE analysis.raised # "" -> [base EXCEPT !.raised = analysis.raised]
         [] n = 0 -> base
         [] warning.raised # "" -> [base EXCEPT !.raised = warning.raised, !.ai_calls = 2]
         [] OTHER -> [base EXCEPT !.raised = signed.raised, !.ai_calls = 2,
                                  !.sign_calls = 1, !.account = signed.account,
                                  !.agent_address = signed.agent_address]

fresh_scan_id_mut(scan_id, used) == TRUE

\* scan_id = "scan_" + uuid.uuid4().hex[:8]: an id no earlier scan has
fresh_scan_id(scan_id, used) == scan_id \notin used

\* POST /api/v1/scan: the scan is saved as queued and perform_scan is
\* added to the background tasks
SubmitScan(scan_id, address) ==
    /\ fresh_scan_id(scan_id, DOMAIN saved)
    /\ scans_seq + bounties_seq < MaxRows
    /\ scans' = insert_or_replace_scan(scans, scans_seq, scan_id,
                                       SaveArgs(address, "queued", 0, 0, None), clock)
    /\ scans_seq' = scans_seq + 1
    /\ stats' = _increment_stat(stats, "contracts_scanned", clock)
    /\ saved' = (scan_id :> SaveArgs(address, "queued", 0, 0, None)) @@ saved
    /\ tasks' = (scan_id :> address) @@ tasks
    /\ last' = [op |-> "api.submit_scan", args |-> <<scan_id, address>>,
                raised |-> "", ret |-> "queued"]
    /\ UNCHANGED <<signerVars, bounties, bounties_seq, clock, cacheVars, escrowVars,
                   jobVars, finished, tailVars>>

\* the background task perform_scan(scan_id, contract_address, chain_id)
PerformScan(scan_id, rpc_ok, api_key, resp) ==
    /\ scan_id \in DOMAIN tasks
    /\ LET address == tasks[scan_id]
           code == get_contract_code(_cache, address, chain_code, rpc_ok)
           r == perform_scan(address, scan_address(address, code.value), api_key,
                             resp, _account, private_key, agent_address)
       IN /\ rpc_calls + code.rpc <= MaxRpcCalls
          /\ scans_seq + bounties_seq < MaxRows
          /\ \A s \in stats : s.vulnerabilities_found + r.increment <= MaxCounter
          /\ _cache' = code.cache
          /\ rpc_calls' = rpc_calls + code.rpc
          /\ fetched' = IF code.fetched /\ address \notin DOMAIN fetched
                        THEN Put(fetched, address, code.value) ELSE fetched
          /\ _account' = r.account
          /\ agent_address' = r.agent_address
          /\ scans' = insert_or_replace_scan(scans, scans_seq, scan_id, r.save, clock)
          /\ scans_seq' = scans_seq + 1
          /\ stats' = LET s1 == _increment_stat(stats, "contracts_scanned", clock)
                      IN IF r.increment > 0
                         THEN increment_vulnerabilities(s1, r.increment, clock)
                         ELSE s1
          /\ saved' = (scan_id :> r.save) @@ saved
          /\ tasks' = [x \in DOMAIN tasks \ {scan_id} |-> tasks[x]]
          /\ finished' = finished \cup {scan_id}
          /\ last' = [op |-> "perform_scan", args |-> <<scan_id>>,
                      raised |-> "",
                      ret |-> [status |-> r.save.status,
                               is_contract |-> is_contract(code.value),
                               ai_calls |-> r.ai_calls, sign_calls |-> r.sign_calls,
                               vulnerabilities |-> r.vulnerabilities]]
    /\ UNCHANGED <<private_key, bounties, bounties_seq, clock, chain_code,
                   escrowVars, jobVars, tailVars>>

\* await agent.analyze_contract(contract_address, chain_id)
AgentAnalyzeContract(address, rpc_ok, resp, wresp) ==
    LET code == get_contract_code(_cache, address, chain_code, rpc_ok)
        r == CyberMercenary_analyze_contract(address, resp, wresp, _account,
                                             private_key, agent_address)
    IN /\ rpc_calls + code.rpc <= MaxRpcCalls
       /\ _cache' = code.cache
       /\ rpc_calls' = rpc_calls + code.rpc
       /\ fetched' = IF code.fetched /\ address \notin DOMAIN fetched
                     THEN Put(fetched, address, code.value) ELSE fetched
       /\ _account' = r.account
       /\ agent_address' = r.agent_address
       /\ last' = [op |-> "agent.analyze_contract", args |-> <<address>>,
                   raised |-> r.raised,
                   ret |-> [status |-> "", is_contract |-> is_contract(code.value),
                            ai_calls |-> r.ai_calls, sign_calls |-> r.sign_calls,
                            vulnerabilities |-> r.vulnerabilities]]
       /\ UNCHANGED <<private_key, dbVars, chain_code, escrowVars, jobVars,
                      flowVars, tailVars>>

(***************************************************************************)
(* api/metrics.py: HTTP request metrics                                    *)
(***************************************************************************)
MaxRequests == 3     \* requests the decorated handlers receive

\* the (method, endpoint) pairs the decorator is applied with
Labels == {<<"GET", "/health">>, <<"GET", "/stats">>}
StatusCodes == {"200", "404", "500"}

Metrics ==
    [in_progress |-> http_requests_in_progress, total |-> http_requests_total,
     duration |-> http_request_duration_seconds, _start_time |-> _start_time,
     observed |-> <<>>]

\* MetricsCollector.start_request
start_request(m, method, endpoint, now) ==
    [m EXCEPT !.in_progress[<<method, endpoint>>] = @ + 1,
              !._start_time = Put(@, method \o ":" \o endpoint, now)]

end_request_mut(m, method, endpoint, status_code, now) ==
    IF method \o ":" \o endpoint \in DOMAIN m._start_time
    THEN [m EXCEPT !.in_progress[<<method, endpoint>>] = 0,
                   !.total[<<<<method, endpoint>>, status_code>>] = @ + 1]
    ELSE m

\* MetricsCollector.end_request; observed is what this call passes to
\* Histogram.observe
end_request(m, method, endpoint, status_code, now) ==
    LET key == method \o ":" \o endpoint
        has == key \in DOMAIN m._start_time
        duration == now - m._start_time[key]
    IN [in_progress |-> [m.in_progress EXCEPT ![<<method, endpoint>>] = @ - 1],
        total |-> [m.total EXCEPT ![<<<<method, endpoint>>, status_code>>] = @ + 1],
        duration |-> IF has
                     THEN [m.duration EXCEPT ![<<method, endpoint>>] =
                              [count |-> @.count + 1, sum |-> @.sum + duration]]
                     ELSE m.duration,
        _start_time |-> IF has
                        THEN [k \in DOMAIN m._start_time \ {key} |-> m._start_time[k]]
                        ELSE m._start_time,
        observed |-> IF has THEN <<duration>> ELSE <<>>]

\* track_http_request.async_wrapper: the status code passed to end_request
wrapper_status_code(outcome) ==
    CASE outcome = "return" -> "200"
      [] outcome = "http_404" -> "404"
      [] OTHER -> "500"

SetMetrics(m) ==
    /\ http_requests_in_progress' = m.in_progress
    /\ http_requests_total' = m.total
    /\ http_request_duration_seconds' = m.duration
    /\ _start_time' = m._start_time

\* async_wrapper up to the await of the handler
StartRequest(h, method, endpoint) ==
    /\ handlers[h].pc = "idle"
    /\ <<method, endpoint>> \in Labels
    /\ IF h = 1 THEN TRUE ELSE handlers[h - 1].pc # "idle"
    /\ SetMetrics(start_request(Metrics, method, endpoint, clock))
    /\ handlers' = [handlers EXCEPT ![h] =
                      [pc |-> "running", method |-> method, endpoint |-> endpoint,
                       started |-> clock, ended |-> 0, observed |-> <<>>]]
    /\ last' = [op |-> "metrics.start_request", args |-> <<h>>, raised |-> "",
                ret |-> None]
    /\ UNCHANGED <<coreVars, logVars>>

\* async_wrapper from the end of the handler: both the normal path and the
\* except Exception path call end_request, the latter re-raises
EndRequest(h, outcome) ==
    LET r == end_request(Metrics, handlers[h].method, handlers[h].endpoint,
                         wrapper_status_code(outcome), clock)
    IN /\ handlers[h].pc = "running"
       /\ SetMetrics(r)
       /\ handlers' = [handlers EXCEPT ![h].pc = "done", ![h].ended = clock,
                                       ![h].observed = r.observed]
       /\ last' = [op |-> "metrics.end_request", args |-> <<h>>,
                   raised |-> CASE outcome = "http_404" -> "HTTPException"
                                [] outcome = "exception" -> "Exception"
                                [] OTHER -> "",
                   ret |-> wrapper_status_code(outcome)]
       /\ UNCHANGED <<coreVars, logVars>>

(***************************************************************************)
(* api/logging.py: request id context                                      *)
(***************************************************************************)
MaxBlocks == 3       \* request_context blocks that are entered

\* the request id passed to request_context by block b
RequestId(b) == <<"req_a", "req_b", "req_c", "req_d", "req_e">>[b]

\* request_context up to the yield; get_request_id is the attribute of the
\* thread-local object, "" when unset
request_context_enter(current, id) ==
    [old_request_id |-> current, request_id |-> id]

request_context_exit_mut(old_request_id) == ""

\* request_context after the yield: finally set_request_id(old_request_id)
request_context_exit(old_request_id) == old_request_id

\* StructuredLogRecord.__init__, the log record factory
StructuredLogRecord(current) == [request_id |-> current]

\* StructuredLogger._extra
_extra(kwargs, current) ==
    IF current # ""
    THEN Put(kwargs, "request_id", current)
    ELSE kwargs

\* with request_context(id): entry
EnterContext(b) ==
    LET r == request_context_enter(request_id, RequestId(b))
    IN /\ blocks[b].pc = "out"
       /\ request_id' = r.request_id
       /\ blocks' = [blocks EXCEPT ![b] = [pc |-> "in", old_request_id |-> r.old_request_id]]
       /\ open' = Append(open, b)
       /\ last' = [op |-> "context.enter", args |-> <<b>>, raised |-> "", ret |-> None]
       /\ UNCHANGED <<coreVars, metricsVars, log_file, backups, backup_count, generation>>

\* the body of the block ends, by falling off its end or by an exception
ExitContext(b, raised) ==
    /\ blocks[b].pc = "in"
    /\ request_id' = request_context_exit(blocks[b].old_request_id)
    /\ blocks' = [blocks EXCEPT ![b].pc = "exited"]
    /\ open' = SelectSeq(open, LAMBDA x : x # b)
    /\ last' = [op |-> "context.exit", args |-> <<b>>, raised |-> raised, ret |-> None]
    /\ UNCHANGED <<coreVars, metricsVars, log_file, backups, backup_count, generation>>

\* code inside block b logs, through a standard logger or through a
\* StructuredLogger, which passes _extra(kwargs) as extra.  The factory
\* makes the record with its request_id attribute, and Logger.makeRecord
\* raises KeyError when extra has a key the record already has.
Log(b, via) ==
    LET extra == IF via = "StructuredLogger" THEN _extra(<<>>, request_id) ELSE <<>>
        overwrite == "request_id" \in DOMAIN extra
    IN /\ blocks[b].pc = "in"
       /\ last' = [op |-> "log", args |-> <<b, via>>,
                   raised |-> IF overwrite THEN "KeyError" ELSE "",
                   ret |-> [record |-> IF overwrite THEN <<>>
                                       ELSE <<StructuredLogRecord(request_id)>>,
                            extra |-> extra]]
       /\ UNCHANGED <<coreVars, metricsVars, logVars>>

(***************************************************************************)
(* api/logging.py: log rotation                                            *)
(***************************************************************************)
MaxBackups == 3      \* largest backup_count
MaxRotations == 4    \* rotate calls

NoFile == [exists |-> FALSE, gen |-> 0, size |-> 0]

\* the loop of rotate: for i = backup_count - 1 down to 1, rename
\* <name>.i.log to <name>.(i+1).log when it exists
RECURSIVE rotate_loop(_, _)
rotate_loop(bk, i) ==
    IF i < 1 THEN bk
    ELSE rotate_loop(IF bk[i].exists
                     THEN [bk EXCEPT ![i + 1] = bk[i], ![i] = NoFile]
                     ELSE bk, i - 1)

\* LogFile.rotate: the loop, rename of the current log to <name>.1.log when
\* it exists, touch
rotate(file, bk, count, gen) ==
    LET shifted == rotate_loop(bk, count - 1)
        renamed == IF file.exists THEN [shifted EXCEPT ![1] = file] ELSE shifted
    IN [log_file |-> [exists |-> TRUE, gen |-> gen, size |-> 0],
        backups |-> renamed]

\* log_file.rotate(path)
Rotate ==
    LET r == rotate(log_file, backups, backup_count, generation + 1)
    IN /\ generation < MaxRotations
       /\ generation' = generation + 1
       /\ log_file' = r.log_file
       /\ backups' = r.backups
       /\ last' = [op |-> "rotate", args |-> <<>>, raised |-> "",
                   ret |-> None]
       /\ UNCHANGED <<coreVars, metricsVars, request_id, blocks, open, backup_count>>

\* the file handler appends a record to the current log
LogWrite ==
    /\ log_file.exists
    /\ log_file.size = 0
    /\ log_file' = [log_file EXCEPT !.size = 1]
    /\ last' = [op |-> "log_write", args |-> <<>>, raised |-> "", ret |-> None]
    /\ UNCHANGED <<coreVars, metricsVars, request_id, blocks, open, backups,
                   backup_count, generation>>

(***************************************************************************)
(* Specifications                                                          *)
(***************************************************************************)
\* the database after the first DatabaseService(db_url): empty tables and
\* the stats row
InitDatabase ==
    /\ scans = {}
    /\ scans_seq = 0
    /\ bounties = {}
    /\ bounties_seq = 0
    /\ clock = 1
    /\ stats = _init_db({}, 1)
    /\ saved = <<>>

\* the signature manager after SignatureManager(config)
InitSigner ==
    /\ private_key \in Keys \cup {None, ""}
    /\ agent_address \in {None, "0xAb1", "0x000"}
    /\ _account = None

\* the scanner's cache after ContractScanner(config)
InitCache ==
    /\ _cache = <<>>
    /\ chain_code = [a \in Accounts |-> "0x6080"]
    /\ rpc_calls = 0
    /\ fetched = <<>>

InitScanner ==
    /\ InitCache
    /\ escrow \in EscrowConfigs
    /\ _escrow_contract = None
    /\ txs_signed = 0
    /\ txs_sent = 0
    /\ connected \in BOOLEAN

\* the jobs after ScannerJob(agent) and BountyJob(agent)
InitJobs ==
    /\ job_pc = [j \in Jobs |-> "idle"]
    /\ _running = [j \in Jobs |-> FALSE]
    /\ _task = [j \in Jobs |-> None]
    /\ active = [j \in Jobs |-> 0]
    /\ cycles = [j \in Jobs |-> 0]
    /\ sleeps = [j \in Jobs |-> 0]
    /\ stop_called = [j \in Jobs |-> FALSE]

\* no scan submitted; CyberMercenary(config) not started
InitAgent ==
    /\ tasks = <<>>
    /\ finished = {}
    /\ agent_running = FALSE
    /\ agent_stopped = FALSE
    /\ http_requests_in_progress = [l \in Labels |-> 0]
    /\ http_requests_total = [l \in Labels \X StatusCodes |-> 0]
    /\ http_request_duration_seconds = [l \in Labels |-> [count |-> 0, sum |-> 0]]
    /\ _start_time = <<>>
    /\ handlers = [h \in 1..MaxRequests |->
                      [pc |-> "idle", method |-> "", endpoint |-> "",
                       started |-> 0, ended |-> 0, observed |-> <<>>]]
    /\ request_id = ""
    /\ blocks = [b \in 1..MaxBlocks |-> [pc |-> "out", old_request_id |-> ""]]
    /\ open = <<>>
    /\ generation = 0

\* LogFile(log_dir, max_size_mb, backup_count) over a directory where the
\* log may or may not exist yet
InitLogFile(counts, files) ==
    /\ log_file \in files
    /\ backups = [k \in 1..MaxBackups |-> NoFile]
    /\ backup_count \in counts

Init ==
    /\ InitSigner
    /\ InitDatabase
    /\ InitScanner
    /\ InitJobs
    /\ InitAgent
    /\ InitLogFile({MaxBackups}, {NoFile})
    /\ last = NoCall

NextSigner ==
    \/ GetAccount
    \/ \E m \in Messages : SignMessage(m)
    \/ \E m \in Messages, s \in Signatures, a \in ClaimedAddresses :
          VerifySignature(m, s, a)

\* scans and statistics
NextScans ==
    \/ InitDb
    \/ \E id \in ScanIds, a \in ScanArgs : SaveScan(id, a)
    \/ \E n \in 0..MaxCounter : IncrementVulnerabilities(n)
    \/ Tick

\* bounties
NextBounties ==
    \/ InitDb
    \/ \E b \in BountyIds, a \in BountyArgs : SaveBounty(b, a)
    \/ \E b \in BountyIds : ClaimBounty(b)
    \/ Tick

\* the database as the API server uses it
NextDb ==
    \/ InitDb
    \/ \E id \in ScanIds, a \in ScanArgs : SaveScan(id, a)
    \/ \E b \in BountyIds, a \in ServerBountyArgs : SaveBounty(b, a)
    \/ \E b \in BountyIds : ClaimBounty(b)
    \/ \E n \in 0..MaxCounter : IncrementVulnerabilities(n)
    \/ Tick

\* the signature manager alone
SpecSigner == Init /\ [][NextSigner]_vars

\* one service alone: the signer configured, no escrow address, the node
\* reachable
InitDbOnly ==
    /\ private_key = "k1"
    /\ agent_address = None
    /\ _account = None
    /\ InitDatabase
    /\ InitScanner
    /\ escrow = None
    /\ connected = TRUE
    /\ InitJobs
    /\ InitAgent
    /\ InitLogFile({MaxBackups}, {NoFile})
    /\ last = NoCall

\* the scanner's bytecode cache alone
NextCache ==
    \/ \E a \in ScanAddresses, ok \in BOOLEAN : GetContractCode(a, ok)
    \/ \E a \in ScanAddresses, ok \in BOOLEAN : ScanAddress(a, ok)
    \/ \E a \in Accounts, c \in Codes : ChainChange(a, c)


\* the scanner's escrow operations alone
NextEscrow ==
    \/ \E op \in TxOps, b \in BountyIds, o \in TxOutcomes : ScannerTx(op, b, o)
    \/ \E o \in CreateOutcomes, n \in BountyIds : ScannerCreateBounty(o, n)
    \/ \E b \in BountyIds, o \in TxOutcomes, st \in BountyStatuses :
          ScannerGetBountyStatus(b, o, st)

InitEscrowOnly ==
    /\ private_key \in {"k1", None}
    /\ agent_address = None
    /\ _account = None
    /\ InitDatabase
    /\ InitScanner
    /\ connected = TRUE
    /\ InitJobs
    /\ InitAgent
    /\ InitLogFile({MaxBackups}, {NoFile})
    /\ last = NoCall

SpecEscrow == InitEscrowOnly /\ [][NextEscrow]_vars

\* the scan store and the endpoint that reads it
NextScanApi ==
    \/ NextScans
    \/ \E id \in ScanIds, ok \in BOOLEAN : GetScanStatus(id, ok)

SpecScanApi == InitDbOnly /\ [][NextScanApi]_vars

\* the bounty endpoints that write to the chain
NextBountyApi ==
    \/ \E e \in BountyEndpoints, req \in Requests, o \in CreateOutcomes,
          n \in BountyIds :
          /\ e # "create" => o \in TxOutcomes /\ n = 1 /\ req.ipfs_hash = "QmTest123"
          /\ ApiBounty(e, req, o, n)
    \/ Connection

InitBountyApi ==
    /\ private_key = "k1"
    /\ agent_address = None
    /\ _account = None
    /\ InitDatabase
    /\ InitScanner
    /\ InitJobs
    /\ InitAgent
    /\ InitLogFile({MaxBackups}, {NoFile})
    /\ last = NoCall

SpecBountyApi == InitBountyApi /\ [][NextBountyApi]_vars

\* the AI client alone
NextMiniMax ==
    \/ \E resp \in AiResponses : AnalyzeContract(resp)
    \/ \E t \in VulnerabilityTypes, a \in ContractAddresses, resp \in AiResponses :
          GenerateWarning(t, a, resp)

SpecMiniMax == InitDbOnly /\ [][NextMiniMax]_vars

\* the background jobs alone
NextJobs ==
    \/ Start
    \/ \E j \in Jobs : RunStart(j)
    \/ \E j \in Jobs, e \in {"", "Exception"} : CycleEnd(j, e)
    \/ \E j \in Jobs : SleepEnd(j)
    \/ \E j \in Jobs : Stop(j)
    \/ TriggerNow
    \/ AgentStop

SpecJobs == InitDbOnly /\ [][NextJobs]_vars

\* the responses of the AI endpoint the scan flow tells apart: a failed
\* call, a report without and a report with vulnerabilities
FlowResponses ==
    {r \in AiResponses :
        /\ r.fence = ""
        /\ r.kind = "network_error" \/ r.body \in {"empty_object", "report"}}

\* scan submission, the background scan and the agent's analysis
NextScanFlow ==
    \/ \E id \in ScanIds, a \in Accounts : SubmitScan(id, a)
    \/ \E id \in ScanIds, ok \in BOOLEAN, key \in BOOLEAN, resp \in FlowResponses :
          PerformScan(id, ok, key, resp)
    \/ \E a \in Accounts, ok \in BOOLEAN, resp \in FlowResponses,
          wresp \in FlowResponses :
          /\ resp.body # "report" => wresp = resp
          /\ AgentAnalyzeContract(a, ok, resp, wresp)
    \/ \E c \in {"0x", "0x6080"} : ChainChange("0xB2", c)

SpecScanFlow == InitDbOnly /\ [][NextScanFlow]_vars

SpecCache == InitDbOnly /\ [][NextCache]_vars
SpecDb == InitDbOnly /\ [][NextDb]_vars
SpecScans == InitDbOnly /\ [][NextScans]_vars
SpecBounties == InitDbOnly /\ [][NextBounties]_vars

\* decorated handlers: requests start and end, time passes
NextMetrics ==
    \/ \E h \in 1..MaxRequests, l \in Labels : StartRequest(h, l[1], l[2])
    \/ \E h \in 1..MaxRequests,
          outcome \in {"return", "http_404", "exception"} :
          EndRequest(h, outcome)
    \/ Tick

SpecMetrics == InitDbOnly /\ [][NextMetrics]_vars

\* request_context blocks of one thread's sequential code: the code of a
\* block runs, and the block is left, only while it is the innermost one
NextContext ==
    \/ \E b \in 1..MaxBlocks : EnterContext(b)
    \/ \E b \in 1..MaxBlocks, e \in {"", "Exception"} :
          open # <<>> /\ open[Len(open)] = b /\ ExitContext(b, e)
    \/ \E b \in 1..MaxBlocks, via \in {"logging", "StructuredLogger"} :
          open # <<>> /\ open[Len(open)] = b /\ Log(b, via)

SpecContext == InitDbOnly /\ [][NextContext]_vars

\* request_context blocks of coroutines on one event loop: each block
\* belongs to another coroutine, and the loop runs them in any order
NextCoroutines ==
    \/ \E b \in 1..MaxBlocks : EnterContext(b)
    \/ \E b \in 1..MaxBlocks, e \in {"", "Exception"} : ExitContext(b, e)
    \/ \E b \in 1..MaxBlocks, via \in {"logging", "StructuredLogger"} : Log(b, via)

SpecCoroutines == InitDbOnly /\ [][NextCoroutines]_vars

\* a log file that is written and rotated
NextRotation ==
    \/ Rotate
    \/ LogWrite

InitRotation ==
    /\ private_key = "k1"
    /\ agent_address = None
    /\ _account = None
    /\ InitDatabase
    /\ InitScanner
    /\ escrow = None
    /\ connected = TRUE
    /\ InitJobs
    /\ InitAgent
    /\ InitLogFile(0..MaxBackups, {NoFile, [exists |-> TRUE, gen |-> 0, size |-> 1]})
    /\ last = NoCall

SpecRotation == InitRotation /\ [][NextRotation]_vars

\* the whole agent
Next ==
    \/ NextSigner
    \/ NextDb
    \/ NextBounties
    \/ NextCache
    \/ NextEscrow
    \/ NextScanApi
    \/ NextBountyApi
    \/ NextMiniMax
    \/ NextJobs
    \/ NextScanFlow
    \/ NextMetrics
    \/ NextContext
    \/ NextCoroutines
    \/ NextRotation

Spec == Init /\ [][Next]_vars

(***************************************************************************)
(* Properties of the signature manager (SpecSigner)                        *)
(***************************************************************************)
KeyConfigured == private_key \notin {None, ""}

\* C1: sign/verify round trip: for every message m and every configured
\* private key, sign_message(m) yields a signed message whose signature
\* verify_signature accepts for m and the signer's address.
C1_SignVerifyRoundTrip ==
    (last.op = "sign_message" /\ KeyConfigured) =>
        /\ last.raised = ""
        /\ verify_signature(last.args[1], last.ret.signature,
                            last.ret.signer_address).value = TRUE

\* the triple (message, signature, address) is the one that was signed: the
\* signature is a signature of the message and the address is its signer's
Genuine(m, s, a) ==
    /\ s # BadSig
    /\ s.msg = m
    /\ Lower(a) = Lower(Address(s.key))

\* C2: verify_signature returns False and never raises whenever the message,
\* the signature or the claimed address differs from what was signed.
C2_VerifyRejectsMutated ==
    last.op = "verify_signature" =>
        /\ last.raised = ""
        /\ ~Genuine(last.args[1], last.args[2], last.args[3]) => last.ret = FALSE

C2_Witness ==
    /\ last.op = "verify_signature"
    /\ last.args = <<"m2", Sign("m1", "k1"), Address("k1")>>
    /\ last.raised = ""
    /\ last.ret = FALSE

\* C3: without a private key sign_message and _get_account raise ValueError,
\* produce no SignedMessage, cache no account and leave the configured agent
\* address unchanged.
C3_NoKeyRaises ==
    [][ (last'.op \in {"sign_message", "_get_account"} /\ ~KeyConfigured) =>
            /\ last'.raised = "ValueError"
            /\ last'.ret = None
            /\ _account' = None
            /\ agent_address' = agent_address ]_vars

C3_Witness ==
    /\ private_key = None
    /\ agent_address = None
    /\ last.op = "sign_message"
    /\ last.raised = "ValueError"
    /\ _account = None

(***************************************************************************)
(* Properties of the database service (SpecScans, SpecBounties, SpecDb)    *)
(***************************************************************************)
ScanFields(r) ==
    [contract_address |-> r.contract_address, chain_id |-> r.chain_id,
     status |-> r.status, risk_score |-> r.risk_score,
     vulnerability_count |-> r.vulnerability_count, result_data |-> r.result_data]

HasScan(rows, scan_id) == \E r \in rows : r.scan_id = scan_id
HasBounty(rows, bounty_id) == \E r \in rows : r.bounty_id = bounty_id

\* C4: the store holds at most one scan per scan_id, and get_scan(id) returns
\* the field values of the most recent save_scan for that id.
C4_ScanIdUnique ==
    /\ \A id \in ScanIds : Cardinality({r \in scans : r.scan_id = id}) <= 1
    /\ \A id \in DOMAIN saved :
          /\ HasScan(scans, id)
          /\ get_scan(scans, id).scan_id = id
          /\ ScanFields(get_scan(scans, id)) = saved[id]

C4_Witness ==
    /\ last.op = "save_scan"
    /\ scans_seq = 3
    /\ Cardinality(scans) = 1
    /\ get_scan(scans, "s1").status = "completed"

\* C5: bounty records are upserted by identifier: the store holds at most one
\* bounty record per bounty_id, also after repeated save_bounty calls with the
\* same bounty_id.
C5_BountyIdUnique ==
    \A b \in BountyIds : Cardinality({r \in bounties : r.bounty_id = b}) <= 1

\* C6: save_scan for a scan_id that already exists mutates the record in
\* place: its row id and its creation time are unchanged.
C6_SaveScanInPlace ==
    [][ (last'.op = "save_scan" /\ HasScan(scans, last'.args[1])) =>
            /\ get_scan(scans', last'.args[1]).id = get_scan(scans, last'.args[1]).id
            /\ get_scan(scans', last'.args[1]).created_at =
                   get_scan(scans, last'.args[1]).created_at ]_vars

\* C7: after increment_vulnerabilities(n) the value of
\* get_stats()['vulnerabilities_found'] is its value before the call plus n.
C7_IncrementVisible ==
    [][ last'.op = "increment_vulnerabilities" =>
            get_stats(scans', bounties', stats').vulnerabilities_found =
                get_stats(scans, bounties, stats).vulnerabilities_found
                    + last'.args[1] ]_vars

RECURSIVE SumSaved(_)
SumSaved(ids) ==
    IF ids = {} THEN 0
    ELSE LET id == CHOOSE x \in ids : TRUE
         IN  saved[id].vulnerability_count + SumSaved(ids \ {id})

\* C8: get_stats()['contracts_scanned'] is the number of distinct scan_ids
\* saved, and get_stats()['vulnerabilities_found'] is the sum of the
\* vulnerability counts of the stored scans (the latest save of each id).
C8_StatsCountScans ==
    /\ get_stats(scans, bounties, stats).contracts_scanned = Cardinality(DOMAIN saved)
    /\ get_stats(scans, bounties, stats).vulnerabilities_found = SumSaved(DOMAIN saved)

C8_Witness ==
    /\ scans_seq = 3
    /\ DOMAIN saved = ScanIds
    /\ get_stats(scans, bounties, stats).contracts_scanned = 2
    /\ get_stats(scans, bounties, stats).vulnerabilities_found = 3

\* C9: claim_bounty(b) returns True exactly when a stored bounty has
\* bounty_id b; after True get_bounty(b)['claimed_at'] is set and the status
\* and amount of the bounty are unchanged; after False the store is unchanged.
C9_ClaimBounty ==
    [][ last'.op = "claim_bounty" =>
            /\ last'.ret = HasBounty(bounties, last'.args[1])
            /\ last'.ret =>
                  /\ get_bounty(bounties', last'.args[1]).claimed_at # NULL
                  /\ get_bounty(bounties', last'.args[1]).status =
                         get_bounty(bounties, last'.args[1]).status
                  /\ get_bounty(bounties', last'.args[1]).amount_wei =
                         get_bounty(bounties, last'.args[1]).amount_wei
                  /\ {[r EXCEPT !.claimed_at = NULL] : r \in bounties'} =
                         {[r EXCEPT !.claimed_at = NULL] : r \in bounties}
            /\ ~last'.ret =>
                  /\ bounties' = bounties
                  /\ scans' = scans
                  /\ stats' = stats ]_vars

C9_Witness ==
    /\ last.op = "claim_bounty"
    /\ last.ret = TRUE
    /\ bounties_seq >= 2
    /\ get_bounty(bounties, last.args[1]).claimed_at # NULL
    /\ \E r \in bounties : r.claimed_at = NULL

\* C10: the stats table holds exactly one row, with id 1, after any number of
\* initialisations and any sequence of save_scan, save_bounty, claim_bounty
\* and increment operations.
C10_SingleStatsRow ==
    /\ Cardinality(stats) = 1
    /\ \A r \in stats : r.id = 1

C10_Witness ==
    /\ last.op = "_init_db"
    /\ scans_seq >= 1
    /\ bounties_seq >= 1
    /\ \E r \in bounties : r.claimed_at # NULL
    /\ \E r \in stats : r.id = 1 /\ r.contracts_scanned >= 1 /\ r.vulnerabilities_found >= 1

\* C11: contract-code cache: once get_contract_code(a) has succeeded for an
\* address a, every later get_contract_code(a) on the same scanner issues
\* no RPC call and returns the code of the first successful call.
C11_CacheHit ==
    [][(last'.op = "get_contract_code" /\ last'.args[1] \in DOMAIN fetched)
        => /\ rpc_calls' = rpc_calls
           /\ last'.ret = fetched[last'.args[1]]]_vars

\* a call answered from the cache after the code on the chain has changed
C11_Witness ==
    /\ last.op = "get_contract_code"
    /\ last.args[1] \in DOMAIN fetched
    /\ chain_code[to_checksum_address(last.args[1]).value] # fetched[last.args[1]]
    /\ last.ret = fetched[last.args[1]]

\* C12: scan_address never raises; when the RPC call for the bytecode
\* fails it returns a ScanResult with is_contract False, bytecode "" and an
\* empty bytecode_hash; and is_contract is True exactly when the returned
\* bytecode is not "0x" and is longer than 2 characters.
C12_ScanAddressResult ==
    [][last'.op = "scan_address"
        => /\ last'.raised = ""
           /\ last'.args[3] => /\ last'.ret.is_contract = FALSE
                               /\ last'.ret.bytecode = ""
                               /\ last'.ret.bytecode_hash = ""
           /\ last'.ret.is_contract <=> /\ last'.ret.bytecode # "0x"
                                        /\ Len(last'.ret.bytecode) > 2]_vars

\* a scan whose RPC call failed
C12_Witness ==
    /\ last.op = "scan_address"
    /\ last.args[3]
    /\ last.ret.bytecode = ""
    /\ rpc_calls >= 1

EscrowOps == TxOps \cup {"scanner.create_bounty", "scanner.get_bounty_status"}

C13_Placeholder(op, args) ==
    CASE op = "scanner.create_bounty" -> <<1, "0xplaceholder">>
      [] op = "scanner.get_bounty_status" ->
            [id |-> args[1], claimed |-> FALSE, disputed |-> FALSE,
             expires_at |-> 0, status |-> "unknown"]
      [] OTHER -> "0xplaceholder"

\* C13: when no escrow contract address is configured, create_bounty
\* returns (1, "0xplaceholder"), claim_bounty, dispute_bounty,
\* resolve_dispute and submit_report return "0xplaceholder",
\* get_bounty_status returns status "unknown" with the requested id, and no
\* transaction is signed or sent.
C13_NoEscrowPlaceholder ==
    [][(last'.op \in EscrowOps /\ ~Truthy(escrow))
        => /\ txs_signed' = txs_signed
           /\ txs_sent' = txs_sent
           /\ last'.raised = ""
           /\ last'.ret = C13_Placeholder(last'.op, last'.args)]_vars

\* an escrow operation answered by the placeholder
C13_Witness ==
    /\ ~Truthy(escrow)
    /\ last.op \in TxOps
    /\ last.ret = "0xplaceholder"
    /\ txs_signed = 0

\* C14: every bounty endpoint that writes to the chain (create, dispute,
\* resolve, claim, report) responds with HTTP 503 when scanner.is_connected()
\* is false, and in that case sends no transaction and writes nothing to
\* the database.
C14_NotConnected503 ==
    [][(last'.op \in {"api." \o e : e \in BountyEndpoints} /\ ~connected)
        => /\ last'.ret.status_code = 503
           /\ txs_signed' = txs_signed
           /\ txs_sent' = txs_sent
           /\ bounties' = bounties
           /\ scans' = scans
           /\ stats' = stats]_vars

\* C15: get_scan(id) finds no row exactly when no save_scan with that
\* scan_id has ever been performed, and GET /api/v1/scan/{id} then responds
\* 404; for a saved id the endpoint responds 200 with the stored scan_id and
\* status.
C15_ScanStatus ==
    /\ \A id \in ScanIds : HasScan(scans, id) <=> id \in DOMAIN saved
    /\ last.op = "api.get_scan_status"
         => IF last.args[1] \in DOMAIN saved
            THEN /\ last.ret.status_code = 200
                 /\ last.ret.body.scan_id = last.args[1]
                 /\ last.ret.body.status = saved[last.args[1]].status
            ELSE last.ret.status_code = 404

\* one id is answered with its stored status while another was never saved
C15_Witness ==
    /\ last.op = "api.get_scan_status"
    /\ last.ret.status_code = 200
    /\ last.ret.body.status = "completed"
    /\ \E id \in ScanIds : ~HasScan(scans, id)

\* C16: when the HTTP call to the AI endpoint fails (for example with a
\* network error), generate_warning does not raise: it returns the fallback
\* warning that names the vulnerability type and the contract address.
C16_WarningFallback ==
    [][(last'.op = "generate_warning" /\
        last'.args[3].kind \in {"network_error", "http_error"})
        => /\ last'.raised = ""
           /\ last'.ret = Fallback(last'.args[1], last'.args[2])]_vars

\* the responses C17 is about: no "choices" entry, empty content, or a
\* content that json.loads rejects once the markdown fence is removed
C17_Case(resp) ==
    \/ resp.kind = "no_choices"
    \/ /\ resp.kind = "content"
       /\ StripFence(resp) \in {"", "text", "truncated"}

\* C17: when the AI response has no "choices" entry, has empty content, or
\* has content that is not valid JSON, analyze_contract does not raise: it
\* returns a ContractAnalysis with an empty vulnerability list and
\* overall_risk_score 0.
C17_AnalysisFailed ==
    [][(last'.op = "analyze_contract" /\ C17_Case(last'.args[1]))
        => /\ last'.raised = ""
           /\ last'.ret.vulnerabilities = <<>>
           /\ last'.ret.overall_risk_score = 0]_vars

\* a response without "choices" answered by the failed analysis
C17_Witness ==
    /\ last.op = "analyze_contract"
    /\ last.args[1].kind = "no_choices"
    /\ last.raised = ""
    /\ last.ret.summary = "Analysis failed"

\* C18: in the run loop of ScannerJob and BountyJob the first cycle runs
\* before any sleep, every two consecutive cycles are separated by exactly
\* one completed sleep, and two cycles of the same job never overlap.
C18_CyclesAndSleeps ==
    \A j \in Jobs :
        /\ active[j] <= 1
        /\ job_pc[j] \in {"idle", "scheduled"} => cycles[j] = 0 /\ sleeps[j] = 0
        /\ job_pc[j] = "cycle" => cycles[j] = sleeps[j] + 1 /\ active[j] = 1
        /\ job_pc[j] = "sleep" => cycles[j] = sleeps[j] + 1 /\ active[j] = 0
        /\ job_pc[j] = "done" => cycles[j] = sleeps[j] /\ active[j] = 0

\* a job in its second cycle, after one completed sleep
C18_Witness ==
    \E j \in Jobs : job_pc[j] = "cycle" /\ cycles[j] = 2 /\ sleeps[j] = 1

\* C19: if stop() is called on a job at any point after its run() coroutine
\* has been scheduled (including before run() executes its first
\* statement), no new cycle of that job begins afterwards.
C19_NoCycleAfterStop ==
    [][\A j \in Jobs : stop_called[j] => cycles'[j] = cycles[j]]_vars

\* C20: an exception raised inside a job cycle is caught by run(): the loop
\* does not terminate and the running flag is unchanged; a cycle begins only
\* when run() starts or a sleep has completed, and when a sleep completes
\* with the flag true the next cycle begins.
C20_CycleExceptionCaught ==
    [][\A j \in Jobs :
        /\ (last'.op = "cycle_end" /\ last'.args[1] = j /\ last'.raised # "")
             => /\ job_pc'[j] = "sleep"
                /\ _running'[j] = _running[j]
                /\ cycles'[j] = cycles[j]
        /\ cycles'[j] # cycles[j]
             => \/ job_pc[j] = "scheduled"
                \/ job_pc[j] = "sleep" /\ sleeps'[j] = sleeps[j] + 1
        /\ (last'.op = "sleep_end" /\ last'.args[1] = j /\ _running[j])
             => job_pc'[j] = "cycle" /\ cycles'[j] = cycles[j] + 1]_vars

\* a cycle has raised, run() is in the sleep that follows and the flag is
\* still true
C20_Witness ==
    /\ last.op = "cycle_end"
    /\ last.raised = "Exception"
    /\ job_pc[last.args[1]] = "sleep"
    /\ _running[last.args[1]]

\* C21: in perform_scan and in CyberMercenary.analyze_contract the signer
\* is invoked exactly once when the vulnerability list is non-empty and
\* never when it is empty, and in perform_scan the AI client is invoked only
\* after the scanner reported the address to be a contract.
C21_SignedIffVulnerable ==
    last.op \in {"perform_scan", "agent.analyze_contract"}
        => /\ last.ret.sign_calls = IF last.ret.vulnerabilities > 0 THEN 1 ELSE 0
           /\ (last.op = "perform_scan" /\ last.ret.ai_calls > 0)
                => last.ret.is_contract

\* C22: on every bounty endpoint, when the scanner returns a result string
\* beginning with "error", the endpoint responds with 400, reports no
\* success status, and writes no bounty record to the database.
C22_TxErrorIs400 ==
    [][(last'.op \in {"api." \o e : e \in BountyEndpoints} /\ last'.args[2] = "error")
        => /\ last'.ret.status_code = 400
           /\ last'.ret.status = "error"
           /\ bounties' = bounties]_vars

ScanStatus(id) == get_scan(scans, id).status

\* C23: every submitted scan is stored as queued before its background
\* task starts, and when perform_scan has finished the stored status is
\* not_contract, completed or failed: no finished scan is left queued.
C23_ScanLifecycle ==
    /\ \A id \in DOMAIN tasks : HasScan(scans, id) /\ ScanStatus(id) = "queued"
    /\ \A id \in finished :
          HasScan(scans, id) /\ ScanStatus(id) \in {"not_contract", "completed", "failed"}

\* a scan that failed in the AI client is stored as failed while another
\* scan waits in the queue
C23_Witness ==
    /\ last.op = "perform_scan"
    /\ last.ret.status = "failed"
    /\ last.ret.ai_calls = 1
    /\ tasks # <<>>

C25_NoCycleAfterAgentStop ==
    [][\A j \in Jobs : agent_stopped => cycles'[j] = cycles[j]]_vars

(***************************************************************************)
(* Properties of the metrics and of the logging module                     *)
(***************************************************************************)
HandlersAt(l, pc) ==
    {h \in DOMAIN handlers :
        handlers[h].pc = pc /\ <<handlers[h].method, handlers[h].endpoint>> = l}

TotalOf(l) ==
    http_requests_total[<<l, "200">>] + http_requests_total[<<l, "404">>]
        + http_requests_total[<<l, "500">>]

\* C26: after any sequence of start_request and end_request calls in which
\* every end_request follows its own start_request, the in-progress gauge of
\* each (method, endpoint) equals the number of requests started and not yet
\* ended and is never negative, and http_requests_total has been incremented
\* exactly once per ended request, also when the handler raised.
C26_RequestAccounting ==
    \A l \in Labels :
        /\ http_requests_in_progress[l] = Cardinality(HandlersAt(l, "running"))
        /\ http_requests_in_progress[l] >= 0
        /\ TotalOf(l) = Cardinality(HandlersAt(l, "done"))

\* a handler has raised while two other requests to its endpoint are
\* running or done
C26_Witness ==
    /\ last.op = "metrics.end_request"
    /\ last.raised = "Exception"
    /\ \E l \in Labels :
          /\ http_requests_in_progress[l] = 1
          /\ TotalOf(l) = 2

\* C27: when requests to the same (method, endpoint) overlap in time, each
\* completed request contributes exactly one observation to the duration
\* histogram, measured from that request's own start time.
C27_OwnDuration ==
    \A h \in DOMAIN handlers :
        handlers[h].pc = "done"
            => handlers[h].observed = <<handlers[h].ended - handlers[h].started>>

\* C28: on exit from a request_context block, normal or by exception, the
\* current request id equals the value it had on entry; for properly nested
\* blocks the id observed inside each block is that block's own id.
C28_ContextRestores ==
    [][/\ last'.op = "context.exit"
            => request_id' = blocks[last'.args[1]].old_request_id
       /\ last'.op = "context.enter"
            => blocks'[last'.args[1]].old_request_id = request_id
       /\ last'.op = "log"
            => /\ \A i \in DOMAIN last'.ret.record :
                     last'.ret.record[i].request_id = RequestId(last'.args[1])
               /\ last'.args[2] = "StructuredLogger"
                     => last'.ret.extra = Put(<<>>, "request_id", RequestId(last'.args[1]))]_vars

\* an outer block logs after the block nested in it was left by an exception
C28_Witness ==
    /\ last.op = "log"
    /\ last.ret.record # <<>>
    /\ \E b \in 1..MaxBlocks : blocks[b].pc = "exited"
    /\ Len(open) = 2

\* C29: when the request_context blocks of two requests interleave on one
\* thread, every log record emitted inside a request's block carries that
\* request's id, and after the blocks have exited the current request id is
\* the value it had before either was entered.
C29_RequestIdIsolation ==
    /\ last.op = "log"
          => \A i \in DOMAIN last.ret.record :
                last.ret.record[i].request_id = RequestId(last.args[1])
    /\ open = <<>> => request_id = ""

\* C30: after a rotate call at most backup_count backup files exist,
\* numbered 1..backup_count, backup k holds older content than backup k-1,
\* the content of the log at the time of the rotate is in backup 1, and the
\* active log file exists and is empty.
C30_Rotation ==
    [][last'.op = "rotate"
        => /\ \A k \in DOMAIN backups' : backups'[k].exists => k <= backup_count
           /\ \A k \in DOMAIN backups' :
                 (k > 1 /\ backups'[k].exists /\ backups'[k - 1].exists)
                     => backups'[k].gen < backups'[k - 1].gen
           /\ log_file.exists => backups'[1] = log_file
           /\ log_file'.exists /\ log_file'.size = 0]_vars

====
